---- MODULE Spec2Model ----
(***************************************************************************)
(* ActionMan: a command-line wrapper that drives cmake / ctest.           *)
(*                                                                         *)
(* Two implementations of the operations live in the repository and both  *)
(* are modelled here, side by side:                                        *)
(*   - the operations modules (BuildOperations, RunOperations,             *)
(*     TestOperations) of actionman/modules, and                           *)
(*   - BuildManager of actionman/core.py, the object the command line      *)
(*     constructs.                                                         *)
(*                                                                         *)
(* A state is the filesystem, the environment of the process and the       *)
(* record of the command the process has just executed: its subprocess     *)
(* history, the methods it called, what it reported and how it ended.      *)
(* One action is one whole operation; the return codes of the              *)
(* subprocesses and their effects on the filesystem are the environment's  *)
(* choice.  Python exceptions are the values of the field "out" of the     *)
(* world record that is threaded through the operators.                    *)
(*                                                                         *)
(* Scope: a POSIX host (os.name = "posix"); cmake and ctest are on PATH;   *)
(* of the permission bits only readability is modelled.                    *)
(***************************************************************************)
EXTENDS Integers, Sequences, FiniteSets, TLC

VARIABLES env, fs, cmd, pre, hist, calls, msgs, out

vars == <<env, fs, cmd, pre, hist, calls, msgs, out>>

(***************************************************************************)
(* Bounds of the model                                                     *)
(***************************************************************************)
\* longest list of extra flags / execution parameters
MaxArgs == 2
\* largest number of files below the build directory when a clean starts
MaxFiles == 2
\* largest number of files below the build directory when a run starts
MaxRunFiles == 1
\* largest number of words on a command line
MaxWords == 2

(***************************************************************************)
(* Paths: a path is the sequence of its components, an absolute path       *)
(* starts with the component "/".                                          *)
(***************************************************************************)
isabs(p) == Len(p) > 0 /\ p[1] = "/"

join(a, b) == IF isabs(b) THEN b ELSE a \o b

RECURSIVE PathStr(_)
PathStr(p) ==
  IF Len(p) = 0 THEN ""
  ELSE IF Len(p) = 1 THEN p[1]
  ELSE IF p[1] = "/" THEN "/" \o PathStr(Tail(p))
  ELSE p[1] \o "/" \o PathStr(Tail(p))

IsPrefix(p, q) == Len(p) <= Len(q) /\ SubSeq(q, 1, Len(p)) = p

\* the project root handed to the constructors (self.cwd)
Root == <<"/", "proj">>
\* another directory, the process working directory when the root is redirected
Home == <<"/", "home">>

\* self.build_dir of BuildOperations (default) and of BuildManager
BuildDir == join(Root, <<"build">>)

(***************************************************************************)
(* Program constants                                                       *)
(***************************************************************************)
\* a map that sends profile to the release configuration
ProfileAsRelease ==
  [debug |-> "Debug", profile |-> "Release", release |-> "Release"]

CMAKE_BUILD_MAP ==
  [debug |-> "Debug", profile |-> "RelWithDebInfo", release |-> "Release"]

\* CMAKE_BUILD_MAP.keys(): a dict iterates in insertion order
BuildTypeKeys == <<"debug", "profile", "release">>

OsName == "posix"

(***************************************************************************)
(* Inputs                                                                  *)
(***************************************************************************)
\* build type names a caller may pass: the three valid ones and an invalid one
TypeNames == {"debug", "profile", "release", "bogus"}

ArgTokens == {"-DA=ON", "--b"}

ArgLists == UNION {[1..n -> ArgTokens] : n \in 0..MaxArgs}

(***************************************************************************)
(* The filesystem                                                          *)
(***************************************************************************)
\* files that may exist below the build directory (relative to it)
FileList ==
  << <<"Debug", "bin", "app">>,
     <<"Debug", "lib", "app">>,
     <<"bin", "Debug", "app">>,
     <<"Debug", "app">>,
     <<"bin", "Fabric">>,
     <<"Release", "bin", "app">>,
     <<"app">> >>

FileUniverse == {FileList[i] : i \in DOMAIN FileList}

\* os.path.exists: a file, a directory, or a parent of one
exists(f, p) == \E q \in f.dirs \cup f.files : IsPrefix(p, q)

\* os.makedirs(p, exist_ok=True)
makedirs(f, p) == IF exists(f, p) THEN f ELSE [f EXCEPT !.dirs = @ \cup {p}]

EmptyFs == [dirs |-> {}, files |-> {}, unreadable |-> {}]

(***************************************************************************)
(* The world threaded through an operation                                 *)
(***************************************************************************)
\* o: the environment's choices for this command
\*   fails  the subprocesses of the command (by position) that return non-zero
\*   rev    the order in which glob lists a directory
\*   inst   what the install step leaves in the install bin directory
\*   rm     how far the recursive removal gets
\*   intr   the subprocess (by position) during which the user presses
\*          Ctrl-C, 0 for never
NoOracle ==
  [fails |-> {}, rev |-> FALSE, inst |-> "missing", rm |-> "all", intr |-> 0]

World(f, e, o) ==
  [fs |-> f, env |-> e, o |-> o, hist |-> <<>>, calls |-> <<>>, msgs |-> <<>>,
   out |-> "ok", rc |-> 0, ret |-> <<>>]

Called(w, name, T) == [w EXCEPT !.calls = Append(@, <<name, T>>)]

Say(w, m) == [w EXCEPT !.msgs = Append(@, m)]

Raise(w, e) == [w EXCEPT !.out = e]

\* what the subprocess does to the filesystem
Effect(w, c, cwd, rc) ==
  IF c[1] = "cmake" /\ c[2] = "--build" /\ rc = 0
  THEN [w.fs EXCEPT !.files = @ \cup {cwd \o p : p \in w.env.prod}]
  ELSE w.fs

\* run_command for a program that can be started: the k-th subprocess of the
\* command fails, with a return code other than 1, if the environment chose so.
\* Ctrl-C while the program waits for the subprocess kills the subprocess
\* (return code -2) and raises KeyboardInterrupt in the program, which no
\* except clause below the entry point catches; nothing runs after it.
run_command(w, c, cwd) ==
  LET k  == Len(w.hist) + 1
      rc == IF k \in w.o.fails THEN 2 ELSE 0
  IN IF w.out = "KeyboardInterrupt" THEN w
     ELSE IF k = w.o.intr
     THEN [w EXCEPT !.hist = Append(@, [cmd |-> c, cwd |-> cwd, rc |-> -2]),
                    !.out = "KeyboardInterrupt"]
     ELSE [w EXCEPT !.hist = Append(@, [cmd |-> c, cwd |-> cwd, rc |-> rc]),
                    !.rc = rc,
                    !.fs = Effect(w, c, cwd, rc)]

\* a decorator that reports a failed subprocess and lets the caller go on
ReportAndGoOn(w, key) ==
  IF w.out = "KeyError"
  THEN Raise(Say(Say(w, <<"Invalid build type", key>>),
                 <<"Available build types", "debug", "profile", "release">>),
             "exit1")
  ELSE IF w.out = "CalledProcessError"
  THEN Raise(Say(w, <<"Command failed">>), "ok")
  ELSE w

(***************************************************************************)
(* utils.handle_errors                                                     *)
(***************************************************************************)
handle_errors(w, key) ==
  IF w.out = "KeyError"
  THEN Raise(Say(Say(w, <<"Invalid build type", key>>),
                 <<"Available build types">> \o BuildTypeKeys), "exit1")
  ELSE IF w.out = "CalledProcessError"
  THEN Raise(Say(w, <<"Command failed">>), "exit1")
  ELSE w

(***************************************************************************)
(* configure                                                               *)
(***************************************************************************)
Generator(e) ==
  IF e.ninja THEN "Ninja"
  ELSE IF OsName = "nt" THEN "Visual Studio 17 2022"
  ELSE "Unix Makefiles"

ConfigureCmd(e, T, flags) ==
  <<"cmake", "-G", Generator(e), "-S", ".", "-B", PathStr(BuildDir),
    "-DCMAKE_BUILD_TYPE=" \o CMAKE_BUILD_MAP[T]>> \o flags

BuildOperations_configure(w0, T, flags) ==
  LET w1 == Called(w0, "configure", T)
      w2 == [w1 EXCEPT !.fs = makedirs(w1.fs, BuildDir)]
  IN IF T \notin DOMAIN CMAKE_BUILD_MAP
     THEN handle_errors(Raise(w2, "KeyError"), T)
     ELSE LET w3 == run_command(w2, ConfigureCmd(w2.env, T, flags), Root)
          IN IF w3.rc # 0
             THEN handle_errors(Raise(w3, "CalledProcessError"), T)
             ELSE w3

\* a configure that creates the build directory only once the tool succeeded
ConfigureMakingDirLate(w0, T, flags) ==
  LET w1 == Called(w0, "configure", T)
  IN IF T \notin DOMAIN CMAKE_BUILD_MAP
     THEN Raise(Say(Say(w1, <<"Invalid build type", T>>),
                    <<"Available build types">> \o BuildTypeKeys), "exit1")
     ELSE LET w3 == run_command(w1, ConfigureCmd(w1.env, T, flags), w1.env.pwd)
          IN IF w3.rc # 0
             THEN Raise(Say(w3, <<"Configuration failed">>), "exit1")
             ELSE [w3 EXCEPT !.fs = makedirs(w3.fs, BuildDir)]

\* a configure that falls back to debug for a name it does not know
ConfigureDefaultingToDebug(w0, T, flags) ==
  LET w1 == Called(w0, "configure", T)
      w2 == [w1 EXCEPT !.fs = makedirs(w1.fs, BuildDir)]
      T1 == IF T \in {"debug", "profile", "release"} THEN T ELSE "debug"
      w3 == run_command(w2, ConfigureCmd(w2.env, T1, flags), w2.env.pwd)
  IN IF w3.rc # 0
     THEN Raise(Say(w3, <<"Configuration failed">>), "exit1")
     ELSE w3

BuildManager_configure(w0, T, flags) ==
  LET w1 == Called(w0, "configure", T)
      w2 == [w1 EXCEPT !.fs = makedirs(w1.fs, BuildDir)]
  IN IF T \notin DOMAIN CMAKE_BUILD_MAP
     THEN Raise(Say(Say(w2, <<"Invalid build type", T>>),
                    <<"Available build types">> \o BuildTypeKeys), "exit1")
     ELSE LET w3 == run_command(w2, ConfigureCmd(w2.env, T, flags), w2.env.pwd)
          IN IF w3.rc # 0
             THEN Raise(Say(w3, <<"Configuration failed">>), "exit1")
             ELSE w3

(***************************************************************************)
(* build                                                                   *)
(***************************************************************************)
\* os.cpu_count() or 4
CpuCount(e) == IF e.cpus = 0 THEN 4 ELSE e.cpus

BuildCmd(e) == <<"cmake", "--build", ".", "-j" \o ToString(CpuCount(e))>>

\* a build that starts the build driver before it configures
BuildDriverFirst(w0, T, flags) ==
  LET w1 == run_command(Called(w0, "build", T), BuildCmd(w0.env), BuildDir)
  IN IF w1.rc # 0
     THEN handle_errors(Raise(w1, "CalledProcessError"), T)
     ELSE BuildOperations_configure(w1, T, flags)

BuildOperations_build(w0, T, flags) ==
  LET w1 == BuildOperations_configure(Called(w0, "build", T), T, flags)
  IN IF w1.out # "ok" THEN handle_errors(w1, T)
     ELSE LET w2 == run_command(w1, BuildCmd(w1.env), BuildDir)
          IN IF w2.rc # 0
             THEN handle_errors(Raise(w2, "CalledProcessError"), T)
             ELSE w2

\* a build that starts the build driver a second time when it failed
BuildRetrying(w0, T, flags) ==
  LET w1 == BuildManager_configure(Called(w0, "build", T), T, flags)
  IN IF w1.out # "ok" THEN w1
     ELSE LET w2 == run_command(w1, BuildCmd(w1.env), BuildDir)
              w3 == IF w2.rc # 0
                    THEN run_command(w2, BuildCmd(w2.env), BuildDir)
                    ELSE w2
          IN IF w3.rc # 0
             THEN Raise(Say(w3, <<"build failed", T>>), "exit1")
             ELSE w3

BuildManager_build(w0, T, flags) ==
  LET w1 == BuildManager_configure(Called(w0, "build", T), T, flags)
  IN IF w1.out # "ok" THEN w1
     ELSE LET w2 == run_command(w1, BuildCmd(w1.env), BuildDir)
          IN IF w2.rc # 0
             THEN Raise(Say(w2, <<"build failed", T>>), "exit1")
             ELSE w2

(***************************************************************************)
(* build_all                                                               *)
(***************************************************************************)
Summary(w, title, results) ==
  [w EXCEPT !.msgs = @ \o <<<<title>>>> \o results]

\* a build_all that gives up at the first build type that fails
RECURSIVE BuildAllUntilFailure(_, _, _, _)
BuildAllUntilFailure(w, i, success, results) ==
  IF i > 3 \/ ~success
  THEN LET ws == Summary(w, "BUILD SUMMARY", results)
       IN IF success THEN ws ELSE Raise(ws, "exit1")
  ELSE LET T  == <<"debug", "profile", "release">>[i]
           w1 == BuildOperations_build(w, T, <<>>)
       IN IF w1.out = "ok"
          THEN BuildAllUntilFailure(w1, i + 1, success,
                                    Append(results, <<T, "SUCCESS">>))
          ELSE BuildAllUntilFailure(Raise(w1, "ok"), i + 1, FALSE,
                                    Append(results, <<T, "FAILED">>))

RECURSIVE BuildOperations_build_all_from(_, _, _, _)
BuildOperations_build_all_from(w, i, success, results) ==
  IF i > Len(BuildTypeKeys)
  THEN LET ws == Summary(w, "BUILD SUMMARY", results)
       IN IF success THEN ws ELSE Raise(ws, "exit1")
  ELSE LET T  == BuildTypeKeys[i]
           w1 == BuildOperations_build(w, T, <<>>)
       IN IF w1.out = "ok"
          THEN BuildOperations_build_all_from(w1, i + 1, success,
                                              Append(results, <<T, "SUCCESS">>))
          ELSE IF w1.out = "exit1"
          THEN BuildOperations_build_all_from(Raise(w1, "ok"), i + 1, FALSE,
                                              Append(results, <<T, "FAILED">>))
          ELSE w1

BuildOperations_build_all(w) ==
  BuildOperations_build_all_from(Called(w, "build_all", ""), 1, TRUE, <<>>)

RECURSIVE BuildManager_build_all_from(_, _, _, _)
BuildManager_build_all_from(w, i, success, results) ==
  IF i > Len(BuildTypeKeys)
  THEN LET ws == Summary(w, "BUILD SUMMARY", results)
       IN IF success THEN ws ELSE Raise(ws, "exit1")
  ELSE LET T  == BuildTypeKeys[i]
           w1 == BuildManager_build(w, T, <<>>)
       IN IF w1.out = "ok"
          THEN BuildManager_build_all_from(w1, i + 1, success,
                                           Append(results, <<T, "SUCCESS">>))
          ELSE IF w1.out = "exit1"
          THEN BuildManager_build_all_from(Raise(w1, "ok"), i + 1, FALSE,
                                           Append(results, <<T, "FAILED">>))
          ELSE w1

BuildManager_build_all(w) ==
  BuildManager_build_all_from(Called(w, "build_all", ""), 1, TRUE, <<>>)

(***************************************************************************)
(* test                                                                    *)
(***************************************************************************)
\* a test command that always names a filter
TestCmdAlwaysFiltered(test_filter) ==
  <<"ctest", "--output-on-failure", "-R", test_filter>>

TestCmd(test_filter) ==
  <<"ctest", "--output-on-failure">>
    \o (IF test_filter # "" THEN <<"-R", test_filter>> ELSE <<>>)

\* a test that builds whether the build directory is there or not
TestBuildingAlways(w0, T, test_filter) ==
  LET w1 == Called(w0, "test", T)
      w2 == BuildOperations_build(w1, T, <<>>)
  IN IF w2.out # "ok" THEN handle_errors(w2, T)
     ELSE LET w3 == run_command(w2, TestCmd(test_filter), Root)
          IN IF w3.rc # 0
             THEN handle_errors(
                    Raise(Say(w3, <<"Test execution failed">>),
                          "CalledProcessError"), T)
             ELSE w3

\* TestOperations.test, wrapped by handle_errors
TestOperations_test(w0, T, test_filter) ==
  LET w1 == Called(w0, "test", T)
      w2 == IF ~exists(w1.fs, BuildDir)
            THEN BuildOperations_build(
                   Say(w1, <<"Build directory not found. Building", T>>), T, <<>>)
            ELSE w1
  IN IF w2.out # "ok" THEN handle_errors(w2, T)
     ELSE LET w3 == run_command(w2, TestCmd(test_filter), Root)
          IN IF w3.rc # 0
             THEN handle_errors(
                    Raise(Say(w3, <<"Test execution failed">>),
                          "CalledProcessError"), T)
             ELSE w3

BuildManager_test(w0, T, test_filter) ==
  LET w1 == Called(w0, "test", T)
      w2 == IF ~exists(w1.fs, BuildDir)
            THEN BuildManager_build(
                   Say(w1, <<"Build directory not found. Building", T>>), T, <<>>)
            ELSE w1
  IN IF w2.out # "ok" THEN w2
     ELSE LET w3 == run_command(w2, TestCmd(test_filter), BuildDir)
          IN IF w3.rc # 0
             THEN Raise(Say(w3, <<"Tests failed">>), "exit1")
             ELSE w3

(***************************************************************************)
(* test_all                                                                *)
(***************************************************************************)
\* a test_all that gives up at the first build type whose tests fail
RECURSIVE TestAllUntilFailure(_, _, _, _)
TestAllUntilFailure(w, i, success, results) ==
  IF i > 3 \/ ~success
  THEN LET ws == Summary(w, "TEST SUMMARY", results)
       IN IF success THEN ws ELSE Raise(ws, "exit1")
  ELSE LET T  == <<"debug", "profile", "release">>[i]
           w1 == TestOperations_test(w, T, "")
       IN IF w1.out = "ok"
          THEN TestAllUntilFailure(w1, i + 1, success,
                                   Append(results, <<T, "SUCCESS">>))
          ELSE TestAllUntilFailure(Raise(w1, "ok"), i + 1, FALSE,
                                   Append(results, <<T, "FAILED">>))

RECURSIVE TestOperations_test_all_from(_, _, _, _)
TestOperations_test_all_from(w, i, success, results) ==
  IF i > Len(BuildTypeKeys)
  THEN LET ws == Summary(w, "TEST SUMMARY", results)
       IN IF success THEN ws ELSE Raise(ws, "exit1")
  ELSE LET T  == BuildTypeKeys[i]
           w1 == TestOperations_test(w, T, "")
       IN IF w1.out = "ok"
          THEN TestOperations_test_all_from(w1, i + 1, success,
                                            Append(results, <<T, "SUCCESS">>))
          ELSE IF w1.out = "exit1"
          THEN TestOperations_test_all_from(Raise(w1, "ok"), i + 1, FALSE,
                                            Append(results, <<T, "FAILED">>))
          ELSE w1

TestOperations_test_all(w) ==
  TestOperations_test_all_from(Called(w, "test_all", ""), 1, TRUE, <<>>)

RECURSIVE BuildManager_test_all_from(_, _, _, _)
BuildManager_test_all_from(w, i, success, results) ==
  IF i > Len(BuildTypeKeys)
  THEN LET ws == Summary(w, "TEST SUMMARY", results)
       IN IF success THEN ws ELSE Raise(ws, "exit1")
  ELSE LET T  == BuildTypeKeys[i]
           w1 == BuildManager_test(w, T, "")
       IN IF w1.out = "ok"
          THEN BuildManager_test_all_from(w1, i + 1, success,
                                          Append(results, <<T, "SUCCESS">>))
          ELSE IF w1.out = "exit1"
          THEN BuildManager_test_all_from(Raise(w1, "ok"), i + 1, FALSE,
                                          Append(results, <<T, "FAILED">>))
          ELSE w1

BuildManager_test_all(w) ==
  BuildManager_test_all_from(Called(w, "test_all", ""), 1, TRUE, <<>>)

(***************************************************************************)
(* install                                                                 *)
(***************************************************************************)
\* a prefix is a path; the empty path stands for None and for "", which the
\* code does not tell apart (if prefix: / prefix or "/usr/local")
InstallCmd(prefix) ==
  <<"cmake", "--install", ".">>
    \o (IF prefix # <<>> THEN <<"--prefix", PathStr(prefix)>> ELSE <<>>)

\* the verification of the installed executable, lines 216-243
VerifyInstall(w, prefix) ==
  LET install_bin_dir ==
        join(IF prefix # <<>> THEN prefix ELSE <<"/", "usr", "local">>, <<"bin">>)
      installed_exe == install_bin_dir \o <<"app">>
  IN CASE w.o.inst = "missing" ->
            Say(w, <<"Install directory not found, skipping verification">>)
       [] w.o.inst = "empty" ->
            Say(w, <<"No installed files found">>)
       [] w.o.inst = "unreadable" ->
            \* os.listdir raises outside the try block
            Raise(w, "PermissionError")
       [] w.o.inst = "chmod_fails" ->
            Say(w, <<"Post-install verification failed">>)
       [] w.o.inst = "probe_cannot_start" ->
            Say(Say(w, <<"Set executable permissions">>),
                <<"Post-install verification failed">>)
       [] OTHER ->
            LET w1 == run_command(Say(w, <<"Set executable permissions">>),
                                  <<PathStr(installed_exe), "--version">>,
                                  install_bin_dir)
            IN IF w1.rc = 0 THEN Say(w1, <<"Installation verified">>)
               ELSE Say(w1, <<"Version check failed">>)

BuildOperations_install(w0, T, prefix0) ==
  LET w1 == Called(w0, "install", T)
      w2 == IF ~exists(w1.fs, BuildDir)
            THEN BuildOperations_build(
                   Say(w1, <<"Build directory not found. Building", T>>), T, <<>>)
            ELSE w1
      prefix == IF prefix0 # <<>> /\ ~isabs(prefix0)
                THEN join(Root, prefix0) ELSE prefix0
  IN IF w2.out # "ok" THEN handle_errors(w2, T)
     ELSE LET w3 == run_command(w2, InstallCmd(prefix), BuildDir)
          IN IF w3.rc # 0
             THEN handle_errors(Raise(w3, "CalledProcessError"), T)
             ELSE handle_errors(VerifyInstall(w3, prefix), T)

BuildManager_install(w0, T, prefix) ==
  LET w1 == Called(w0, "install", T)
      w2 == IF ~exists(w1.fs, BuildDir)
            THEN BuildManager_build(
                   Say(w1, <<"Build directory not found. Building", T>>), T, <<>>)
            ELSE w1
  IN IF w2.out # "ok" THEN w2
     ELSE LET w3 == run_command(w2, InstallCmd(prefix), BuildDir)
          IN IF w3.rc # 0
             THEN Raise(Say(w3, <<"Installation failed">>), "exit1")
             ELSE w3

(***************************************************************************)
(* run                                                                     *)
(***************************************************************************)
\* everything glob can list: the files, the directories and their parents
Entries(f) ==
  LET all == f.files \cup f.dirs
  IN UNION {{SubSeq(q, 1, n) : n \in 1..Len(q)} : q \in all}

isfile(f, p) == p \in f.files

readable(f, p) == p \notin f.unreadable

\* glob.glob without recursive=True: "**" matches one component, like "*"
GlobMatch(pattern, p) ==
  /\ Len(p) = Len(pattern)
  /\ \A i \in 1..Len(p) : pattern[i] \in {"*", "**"} \/ pattern[i] = p[i]

glob(f, pattern) == {p \in Entries(f) : GlobMatch(pattern, p)}

Patterns(T) ==
  LET base_path == BuildDir \o <<CMAKE_BUILD_MAP[T]>>
  IN << base_path \o <<"bin", "*">>,
        base_path \o <<"**", "*">>,
        BuildDir \o <<"bin", CMAKE_BUILD_MAP[T], "*">>,
        BuildDir \o <<"**", "*">> >>

\* the position of a file of the build directory in the directory listing
Rank(p) == CHOOSE i \in DOMAIN FileList : BuildDir \o FileList[i] = p

\* the first of the matches S in the order glob yields them: the order of the
\* directory listing is the environment's
FirstMatch(S, rev) ==
  CHOOSE m \in S :
    \A n \in S : IF rev THEN Rank(n) <= Rank(m) ELSE Rank(m) <= Rank(n)

Matches(f, pattern) ==
  {m \in glob(f, pattern) : isfile(f, m) /\ readable(f, m)}

\* a resolution that prefers the last pattern that has a match
FindByLastPattern(w, T) ==
  IF T \notin DOMAIN CMAKE_BUILD_MAP
  THEN handle_errors(Raise(w, "KeyError"), T)
  ELSE LET patterns == Patterns(T)
           hits == {i \in DOMAIN patterns : Matches(w.fs, patterns[i]) # {}}
       IN IF hits = {}
          THEN Raise(w, "FileNotFoundError")
          ELSE LET i == CHOOSE j \in hits : \A k \in hits : j >= k
               IN [w EXCEPT !.ret = FirstMatch(Matches(w.fs, patterns[i]),
                                               w.o.rev)]

\* RunOperations._find_executable, wrapped by handle_errors; the path found
\* is the field ret
RunOperations_find_executable(w, T) ==
  IF T \notin DOMAIN CMAKE_BUILD_MAP
  THEN handle_errors(Raise(w, "KeyError"), T)
  ELSE LET patterns == Patterns(T)
           hits == {i \in DOMAIN patterns : Matches(w.fs, patterns[i]) # {}}
       IN IF hits = {}
          THEN Raise(w, "FileNotFoundError")
          ELSE LET i == CHOOSE j \in hits : \A k \in hits : j <= k
               IN [w EXCEPT !.ret = FirstMatch(Matches(w.fs, patterns[i]),
                                               w.o.rev)]

\* a run that builds once more when the executable is still missing
RunBuildingAgain(w0, T, execution_params) ==
  LET Build(w) == BuildOperations_build(
                    Say(Raise(w, "ok"), <<"Executable not found. Building", T>>),
                    T, <<>>)
      Retry(w) == IF w.out = "FileNotFoundError"
                  THEN LET b == Build(w)
                       IN IF b.out # "ok" THEN b
                          ELSE RunOperations_find_executable(b, T)
                  ELSE w
      w1 == RunOperations_find_executable(Called(w0, "run", T), T)
      w2 == Retry(Retry(w1))
  IN IF w2.out # "ok" THEN handle_errors(w2, T)
     ELSE LET w3 == run_command(w2, <<PathStr(w2.ret)>> \o execution_params,
                                Root)
          IN IF w3.rc # 0
             THEN Say(w3, <<"Execution failed">>)
             ELSE w3

\* a run that resolves the executable again whatever the build did
RunResolvingAfterFailedBuild(w0, T, execution_params) ==
  LET w1 == RunOperations_find_executable(Called(w0, "run", T), T)
      w2 == IF w1.out = "FileNotFoundError"
            THEN LET b == BuildOperations_build(
                            Say(Raise(w1, "ok"),
                                <<"Executable not found. Building", T>>),
                            T, <<>>)
                 IN RunOperations_find_executable(Raise(b, "ok"), T)
            ELSE w1
  IN IF w2.out # "ok" THEN handle_errors(w2, T)
     ELSE LET w3 == run_command(w2, <<PathStr(w2.ret)>> \o execution_params,
                                Root)
          IN IF w3.rc # 0
             THEN Say(w3, <<"Execution failed">>)
             ELSE w3

\* RunOperations.run, wrapped by handle_errors
RunOperations_run(w0, T, execution_params) ==
  LET w1 == RunOperations_find_executable(Called(w0, "run", T), T)
      w2 == IF w1.out = "FileNotFoundError"
            THEN LET b == BuildOperations_build(
                            Say(Raise(w1, "ok"),
                                <<"Executable not found. Building", T>>),
                            T, <<>>)
                 IN IF b.out # "ok" THEN b
                    ELSE RunOperations_find_executable(b, T)
            ELSE w1
  IN IF w2.out # "ok" THEN handle_errors(w2, T)
     ELSE LET w3 == run_command(w2, <<PathStr(w2.ret)>> \o execution_params,
                                Root)
          IN IF w3.rc # 0
             THEN Say(w3, <<"Execution failed">>)
             ELSE w3

\* subprocess.Popen raises FileNotFoundError for a program that does not exist
BuildManager_run(w0, T, execution_params) ==
  LET w1 == Called(w0, "run", T)
      executable == join(BuildDir, <<"bin", "Fabric">>)
      w2 == IF ~exists(w1.fs, executable)
            THEN BuildManager_build(
                   Say(w1, <<"Executable not found. Building", T>>), T, <<>>)
            ELSE w1
  IN IF w2.out # "ok" THEN w2
     ELSE IF ~isfile(w2.fs, executable) THEN Raise(w2, "FileNotFoundError")
     ELSE LET w3 == run_command(w2, <<PathStr(executable)>> \o execution_params,
                                w2.env.pwd)
          IN IF w3.rc # 0
             THEN Raise(Say(w3, <<"Execution failed">>), "exit1")
             ELSE w3

(***************************************************************************)
(* clean                                                                   *)
(***************************************************************************)
\* shutil.rmtree(p, ignore_errors=True): everything below p goes, or only the
\* files go and the directories stay, or nothing goes
rmtree(f, p, how) ==
  CASE how = "all" ->
         [dirs |-> {d \in f.dirs : ~IsPrefix(p, d)},
          files |-> {d \in f.files : ~IsPrefix(p, d)},
          unreadable |-> {d \in f.unreadable : ~IsPrefix(p, d)}]
    [] how = "files" ->
         [dirs |-> f.dirs \cup {p},
          files |-> {d \in f.files : ~IsPrefix(p, d)},
          unreadable |-> {d \in f.unreadable : ~IsPrefix(p, d)}]
    [] OTHER -> f

\* a clean_directory that removes without looking whether there is anything
CleanWithoutLooking(w0, directory0) ==
  LET w1 == Called(w0, "clean_directory", PathStr(directory0))
      directory == IF ~isabs(directory0) THEN join(Root, directory0)
                   ELSE directory0
  IN IF ~exists(w1.fs, directory)
     THEN Raise(Say(w1, <<"Cleaning">>), "FileNotFoundError")
     ELSE Say(Say([w1 EXCEPT !.fs = rmtree(w1.fs, directory, w1.o.rm)],
                  <<"Cleaning">>), <<"Cleaned">>)

BuildOperations_clean_directory(w0, directory0) ==
  LET w1 == Called(w0, "clean_directory", PathStr(directory0))
      directory == IF ~isabs(directory0) THEN join(Root, directory0)
                   ELSE directory0
  IN IF ~exists(w1.fs, directory)
     THEN Say(w1, <<"does not exist. Nothing to clean", PathStr(directory)>>)
     ELSE Say(Say([w1 EXCEPT !.fs = rmtree(w1.fs, directory, w1.o.rm)],
                  <<"Cleaning">>), <<"Cleaned">>)

BuildOperations_clean(w) ==
  BuildOperations_clean_directory(Called(w, "clean", ""), BuildDir)

\* a clean_directory that lets a removal that did not go through escape
CleanPropagating(w0, directory) ==
  LET w1 == Called(w0, "clean_directory", PathStr(directory))
      resolved == join(w1.env.pwd, directory)
  IN IF ~exists(w1.fs, resolved)
     THEN Say(w1, <<"does not exist. Nothing to clean", PathStr(directory)>>)
     ELSE IF w1.o.rm # "all"
     THEN Raise(Say([w1 EXCEPT !.fs = rmtree(w1.fs, resolved, w1.o.rm)],
                    <<"Cleaning">>), "OSError")
     ELSE Say(Say([w1 EXCEPT !.fs = rmtree(w1.fs, resolved, w1.o.rm)],
                  <<"Cleaning">>), <<"Cleaned">>)

\* the operating system resolves a relative path against the working
\* directory of the process
BuildManager_clean_directory(w0, directory) ==
  LET w1 == Called(w0, "clean_directory", PathStr(directory))
      resolved == join(w1.env.pwd, directory)
  IN IF ~exists(w1.fs, resolved)
     THEN Say(w1, <<"does not exist. Nothing to clean", PathStr(directory)>>)
     ELSE Say(Say([w1 EXCEPT !.fs = rmtree(w1.fs, resolved, w1.o.rm)],
                  <<"Cleaning">>), <<"Cleaned">>)

BuildManager_clean(w) ==
  BuildManager_clean_directory(Called(w, "clean", ""), BuildDir)

(***************************************************************************)
(* system_info and the command line                                        *)
(***************************************************************************)
\* BuildManager.system_info: a tool that cannot be started or that fails is
\* reported as not found
BuildManager_system_info(w0) ==
  LET w1 == run_command(Called(w0, "system_info", ""),
                        <<"cmake", "--version">>, w0.env.pwd)
      w2 == IF w1.env.ninja
            THEN run_command(w1, <<"ninja", "--version">>, w1.env.pwd)
            ELSE w1
      w3 == run_command(w2, <<"c++", "--version">>, w2.env.pwd)
  IN IF w3.out # "ok" THEN w3
     ELSE Say(w3, <<"CPU Cores", ToString(w3.env.cpus)>>)

\* the words a command line is made of
CliTokens ==
  {"build", "BUILD", "test", "run", "install", "clean", "info", "help",
   "frobnicate", "all", "release", "bogus", "-DA=ON", "--prefix=out"}

\* str.lower on the words above
Lower(t) == IF t = "BUILD" THEN "build" ELSE t

\* the words that start with "-": argparse takes them for options
IsOptionString(t) == t \in {"-DA=ON", "--prefix=out", "--b"}

\* opt.startswith("--prefix=") and opt.split("=", 1)[1], as a path
HasPrefixOption(t) == t = "--prefix=out"

PrefixValue(t) == <<"out">>

\* cli.extract_prefix: the options without the prefix options, and the last
\* prefix given (the empty path for None)
RECURSIVE extract_prefix(_)
extract_prefix(options) ==
  IF options = <<>> THEN [options |-> <<>>, prefix |-> <<>>]
  ELSE LET n    == Len(options)
           r    == extract_prefix(SubSeq(options, 1, n - 1))
           last == options[n]
       IN IF HasPrefixOption(last)
          THEN [r EXCEPT !.prefix = PrefixValue(last)]
          ELSE [r EXCEPT !.options = Append(@, last)]

handle_build_command(w, options) ==
  IF options # <<>> /\ options[1] = "all"
  THEN BuildManager_build_all(w)
  ELSE BuildManager_build(w, IF options # <<>> THEN options[1] ELSE "debug",
                          <<>>)

\* a run handler that keeps the build type and drops the parameters
RunHandlerDroppingParams(w, options) ==
  IF options # <<>> /\ options[1] \in DOMAIN CMAKE_BUILD_MAP
  THEN BuildManager_run(w, options[1], <<>>)
  ELSE BuildManager_run(w, "debug", <<>>)

handle_run_command(w, options) ==
  IF options = <<>> THEN BuildManager_run(w, "debug", <<>>)
  ELSE IF options[1] \in DOMAIN CMAKE_BUILD_MAP
  THEN BuildManager_run(w, options[1], Tail(options))
  ELSE BuildManager_run(w, "debug", options)

\* a test handler that never takes its first option for a filter
TestHandlerWithoutFallback(w, options) ==
  IF options # <<>> /\ options[1] = "all"
  THEN BuildManager_test_all(w)
  ELSE IF options # <<>> /\ options[1] \in DOMAIN CMAKE_BUILD_MAP
  THEN BuildManager_test(w, options[1],
                         IF Len(options) > 1 THEN options[2] ELSE "")
  ELSE BuildManager_test(w, "debug", "")

handle_test_command(w, options) ==
  IF options # <<>> /\ options[1] = "all"
  THEN BuildManager_test_all(w)
  ELSE IF options = <<>> THEN BuildManager_test(w, "debug", "")
  ELSE IF options[1] \in DOMAIN CMAKE_BUILD_MAP
  THEN BuildManager_test(w, options[1],
                         IF Len(options) > 1 THEN options[2] ELSE "")
  ELSE BuildManager_test(w, "debug", options[1])

handle_install_command(w, options0) ==
  LET r == extract_prefix(options0)
      build_type == IF r.options # <<>>
                       /\ r.options[1] \in DOMAIN CMAKE_BUILD_MAP
                    THEN r.options[1] ELSE "debug"
  IN BuildManager_install(w, build_type, r.prefix)

\* cli.main without --cd, --help and --version: parse_args takes the first
\* word as the command and the others as its options, and ends the process
\* with status 2 for a word that starts with "-"
main(w, args) ==
  IF args = <<>>
  THEN Say(w, <<"help">>)
  ELSE IF \E i \in DOMAIN args : IsOptionString(args[i])
  THEN Raise(Say(w, <<"error: unrecognized arguments">>), "exit2")
  ELSE LET command == Lower(args[1])
           options == Tail(args)
       IN CASE command = "clean" -> BuildManager_clean(w)
            [] command = "build" -> handle_build_command(w, options)
            [] command = "run" -> handle_run_command(w, options)
            [] command = "test" -> handle_test_command(w, options)
            [] command = "install" -> handle_install_command(w, options)
            [] command = "info" -> BuildManager_system_info(w)
            [] OTHER -> Say(Say(w, <<"Unknown command", command>>), <<"help">>)

\* python -m actionman.cli, r being the world main() left: the __main__ block
\* of cli.py catches KeyboardInterrupt, says so and exits with status 130
cli_entry(r) ==
  IF r.out = "KeyboardInterrupt"
  THEN Raise(Say(r, <<"Operation cancelled by user.">>), "exit130")
  ELSE r

\* python main.py, r being the world main() left: the __main__ block calls
\* main() and catches nothing, so KeyboardInterrupt stays uncaught and the
\* interpreter ends with a traceback
main_py_entry(r) == r

(***************************************************************************)
(* Construction                                                            *)
(***************************************************************************)
\* BuildManager.__init__(cwd): self.cwd = cwd or os.getcwd() and
\* self.build_dir = os.path.join(self.cwd, "build"); the empty path stands
\* for None.  The filesystem is not looked at.  ret is (cwd, build_dir).
BuildManager_init(w, cwd) ==
  LET self_cwd == IF cwd = <<>> THEN w.env.pwd ELSE cwd
  IN [Called(w, "__init__", PathStr(cwd))
        EXCEPT !.ret = <<self_cwd, join(self_cwd, <<"build">>)>>]

(***************************************************************************)
(* The state machine                                                       *)
(***************************************************************************)
NoCmd ==
  [op |-> "none", impl |-> "none", T |-> "", args |-> <<>>, prefix |-> <<>>,
   filter |-> "", dir |-> <<>>, o |-> NoOracle, ret |-> <<>>]

Idle == cmd.op = "none"

\* at most one of the first n subprocesses fails
OneFails(n) == {{}} \cup {{k} : k \in 1..n}

\* the products a build driver may leave in its working directory
Products == {{}} \cup {{p} : p \in FileUniverse}

Filters == {"", "FooTest"}

\* no prefix, a relative one and an absolute one
Prefixes == {<<>>, <<"out">>, <<"/", "opt">>}

InstallStates ==
  {"missing", "empty", "unreadable", "chmod_fails", "probe_cannot_start",
   "probe"}

RmOutcomes == {"all", "files", "none"}

\* the command c ran to the end in world w
Finish(c, w) ==
  /\ cmd' = [c EXCEPT !.o = w.o, !.ret = w.ret]
  /\ pre' = fs
  /\ fs' = w.fs
  /\ hist' = w.hist
  /\ calls' = w.calls
  /\ msgs' = w.msgs
  /\ out' = w.out
  /\ UNCHANGED env

\* pwd: the working directory of the process; ninja: ninja is on PATH;
\* cpus: os.cpu_count(), 0 for None; prod: the files, relative to the build
\* directory, a successful build of this project leaves behind
Envs == [pwd : {Root, Home}, ninja : BOOLEAN, cpus : {0, 8}, prod : Products]

BaseDirs == {Root, Home}

\* the build directory is absent or present and empty
BuildFs ==
  {[dirs |-> BaseDirs, files |-> {}, unreadable |-> {}],
   [dirs |-> BaseDirs \cup {BuildDir}, files |-> {}, unreadable |-> {}]}

Fresh ==
  /\ cmd = NoCmd
  /\ pre = fs
  /\ hist = <<>>
  /\ calls = <<>>
  /\ msgs = <<>>
  /\ out = "ok"

Init ==
  /\ env \in Envs
  /\ fs \in BuildFs
  /\ Fresh

\* the process has ended; the next one starts on the filesystem it left
NewProcess ==
  /\ ~Idle
  /\ cmd' = NoCmd
  /\ pre' = fs
  /\ hist' = <<>>
  /\ calls' = <<>>
  /\ msgs' = <<>>
  /\ out' = "ok"
  /\ UNCHANGED <<env, fs>>

OpsConfigure ==
  /\ Idle
  /\ \E T \in TypeNames, flags \in ArgLists, fails \in OneFails(1) :
       Finish([NoCmd EXCEPT !.op = "configure", !.impl = "ops", !.T = T,
                            !.args = flags],
              BuildOperations_configure(
                World(fs, env, [NoOracle EXCEPT !.fails = fails]), T, flags))

MgrConfigure ==
  /\ Idle
  /\ \E T \in TypeNames, flags \in ArgLists, fails \in OneFails(1) :
       Finish([NoCmd EXCEPT !.op = "configure", !.impl = "mgr", !.T = T,
                            !.args = flags],
              BuildManager_configure(
                World(fs, env, [NoOracle EXCEPT !.fails = fails]), T, flags))

OpsBuild ==
  /\ Idle
  /\ \E T \in TypeNames, flags \in ArgLists, fails \in OneFails(2) :
       Finish([NoCmd EXCEPT !.op = "build", !.impl = "ops", !.T = T,
                            !.args = flags],
              BuildOperations_build(
                World(fs, env, [NoOracle EXCEPT !.fails = fails]), T, flags))

MgrBuild ==
  /\ Idle
  /\ \E T \in TypeNames, flags \in ArgLists, fails \in OneFails(2) :
       Finish([NoCmd EXCEPT !.op = "build", !.impl = "mgr", !.T = T,
                            !.args = flags],
              BuildManager_build(
                World(fs, env, [NoOracle EXCEPT !.fails = fails]), T, flags))

OpsBuildAll ==
  /\ Idle
  /\ \E fails \in SUBSET (1..6) :
       Finish([NoCmd EXCEPT !.op = "build_all", !.impl = "ops"],
              BuildOperations_build_all(
                World(fs, env, [NoOracle EXCEPT !.fails = fails])))

MgrBuildAll ==
  /\ Idle
  /\ \E fails \in SUBSET (1..6) :
       Finish([NoCmd EXCEPT !.op = "build_all", !.impl = "mgr"],
              BuildManager_build_all(
                World(fs, env, [NoOracle EXCEPT !.fails = fails])))

OpsTest ==
  /\ Idle
  /\ \E T \in TypeNames, f \in Filters, fails \in OneFails(3) :
       Finish([NoCmd EXCEPT !.op = "test", !.impl = "ops", !.T = T,
                            !.filter = f],
              TestOperations_test(
                World(fs, env, [NoOracle EXCEPT !.fails = fails]), T, f))

MgrTest ==
  /\ Idle
  /\ \E T \in TypeNames, f \in Filters, fails \in OneFails(3) :
       Finish([NoCmd EXCEPT !.op = "test", !.impl = "mgr", !.T = T,
                            !.filter = f],
              BuildManager_test(
                World(fs, env, [NoOracle EXCEPT !.fails = fails]), T, f))

OpsTestAll ==
  /\ Idle
  /\ \E fails \in SUBSET (1..5) :
       Finish([NoCmd EXCEPT !.op = "test_all", !.impl = "ops"],
              TestOperations_test_all(
                World(fs, env, [NoOracle EXCEPT !.fails = fails])))

MgrTestAll ==
  /\ Idle
  /\ \E fails \in SUBSET (1..5) :
       Finish([NoCmd EXCEPT !.op = "test_all", !.impl = "mgr"],
              BuildManager_test_all(
                World(fs, env, [NoOracle EXCEPT !.fails = fails])))

OpsInstall ==
  /\ Idle
  /\ \E T \in TypeNames, prefix \in Prefixes, fails \in OneFails(4),
        inst \in InstallStates :
       Finish([NoCmd EXCEPT !.op = "install", !.impl = "ops", !.T = T,
                            !.prefix = prefix],
              BuildOperations_install(
                World(fs, env, [NoOracle EXCEPT !.fails = fails,
                                                !.inst = inst]), T, prefix))

MgrInstall ==
  /\ Idle
  /\ \E T \in TypeNames, prefix \in Prefixes, fails \in OneFails(3) :
       Finish([NoCmd EXCEPT !.op = "install", !.impl = "mgr", !.T = T,
                            !.prefix = prefix],
              BuildManager_install(
                World(fs, env, [NoOracle EXCEPT !.fails = fails]), T, prefix))

OpsRun ==
  /\ Idle
  /\ \E T \in TypeNames, params \in ArgLists, fails \in OneFails(3),
        rev \in BOOLEAN :
       Finish([NoCmd EXCEPT !.op = "run", !.impl = "ops", !.T = T,
                            !.args = params],
              RunOperations_run(
                World(fs, env, [NoOracle EXCEPT !.fails = fails, !.rev = rev]),
                T, params))

MgrRun ==
  /\ Idle
  /\ \E T \in TypeNames, params \in ArgLists, fails \in OneFails(3) :
       Finish([NoCmd EXCEPT !.op = "run", !.impl = "mgr", !.T = T,
                            !.args = params],
              BuildManager_run(
                World(fs, env, [NoOracle EXCEPT !.fails = fails]), T, params))

\* directories a caller may ask to clean
CleanDirs == {BuildDir, <<"build">>, <<"out">>}

OpsCleanDirectory ==
  /\ Idle
  /\ \E d \in CleanDirs, rm \in RmOutcomes :
       Finish([NoCmd EXCEPT !.op = "clean_directory", !.impl = "ops",
                            !.dir = d],
              BuildOperations_clean_directory(
                World(fs, env, [NoOracle EXCEPT !.rm = rm]), d))

MgrCleanDirectory ==
  /\ Idle
  /\ \E d \in CleanDirs, rm \in RmOutcomes :
       Finish([NoCmd EXCEPT !.op = "clean_directory", !.impl = "mgr",
                            !.dir = d],
              BuildManager_clean_directory(
                World(fs, env, [NoOracle EXCEPT !.rm = rm]), d))

OpsClean ==
  /\ Idle
  /\ \E rm \in RmOutcomes :
       Finish([NoCmd EXCEPT !.op = "clean", !.impl = "ops", !.dir = BuildDir],
              BuildOperations_clean(
                World(fs, env, [NoOracle EXCEPT !.rm = rm])))

MgrClean ==
  /\ Idle
  /\ \E rm \in RmOutcomes :
       Finish([NoCmd EXCEPT !.op = "clean", !.impl = "mgr", !.dir = BuildDir],
              BuildManager_clean(
                World(fs, env, [NoOracle EXCEPT !.rm = rm])))

Next ==
  \/ OpsConfigure
  \/ MgrConfigure
  \/ OpsBuild
  \/ MgrBuild
  \/ OpsBuildAll
  \/ MgrBuildAll
  \/ OpsTest
  \/ MgrTest
  \/ OpsTestAll
  \/ MgrTestAll
  \/ OpsInstall
  \/ MgrInstall
  \/ OpsRun
  \/ MgrRun
  \/ OpsCleanDirectory
  \/ MgrCleanDirectory
  \/ OpsClean
  \/ MgrClean
  \/ NewProcess

Spec == Init /\ [][Next]_vars

(***************************************************************************)
(* Specifications of single operations on richer filesystems               *)
(***************************************************************************)
FileSets == {S \in SUBSET FileUniverse : Cardinality(S) <= MaxFiles}

\* build directories holding up to MaxRunFiles files, at most one unreadable
RunFs ==
  BuildFs \cup
  {[dirs |-> BaseDirs \cup {BuildDir},
    files |-> {BuildDir \o p : p \in S},
    unreadable |-> {BuildDir \o p : p \in U}] :
     S \in {X \in SUBSET FileUniverse : X # {} /\ Cardinality(X) <= MaxRunFiles},
     U \in {{}} \cup {{p} : p \in FileUniverse}}

InitRun ==
  /\ env \in {e \in Envs : e.ninja /\ e.cpus = 8}
  /\ fs \in {f \in RunFs : f.unreadable \subseteq f.files}
  /\ Fresh

NextRun ==
  \/ OpsRun
  \/ MgrRun

SpecRun == InitRun /\ [][NextRun]_vars

\* the build directory and the directories "out" of the project root and of
\* the working directory, each present or not
CleanFs ==
  {[dirs |-> BaseDirs \cup D,
    files |-> {BuildDir \o p : p \in S},
    unreadable |-> {}] :
     D \in SUBSET {BuildDir, Root \o <<"out">>, Home \o <<"out">>},
     S \in FileSets}

InitClean ==
  /\ env \in {e \in Envs : e.ninja /\ e.cpus = 8 /\ e.prod = {}}
  /\ fs \in CleanFs
  /\ Fresh

NextClean ==
  \/ OpsCleanDirectory
  \/ MgrCleanDirectory
  \/ OpsClean
  \/ MgrClean
  \/ NewProcess

SpecClean == InitClean /\ [][NextClean]_vars

\* build directories holding up to MaxFiles files, at most one unreadable
FindFs ==
  {[dirs |-> BaseDirs \cup {BuildDir},
    files |-> {BuildDir \o p : p \in S},
    unreadable |-> {BuildDir \o p : p \in U}] :
     S \in FileSets, U \in {{}} \cup {{p} : p \in FileUniverse}}

InitFind ==
  /\ env \in {e \in Envs : e.pwd = Root /\ e.ninja /\ e.cpus = 8 /\ e.prod = {}}
  /\ fs \in {f \in FindFs : f.unreadable \subseteq f.files}
  /\ Fresh

FindExecutable ==
  /\ Idle
  /\ \E T \in TypeNames, rev \in BOOLEAN :
       Finish([NoCmd EXCEPT !.op = "find_executable", !.impl = "ops", !.T = T],
              RunOperations_find_executable(
                Called(World(fs, env, [NoOracle EXCEPT !.rev = rev]),
                       "find_executable", T), T))

NextFind ==
  \/ FindExecutable
  \/ NewProcess

SpecFind == InitFind /\ [][NextFind]_vars

\* command lines of up to MaxWords words: a command word and its options
CommandLines == UNION {[1..n -> CliTokens] : n \in 0..MaxWords}

\* option lists as a caller of a handler passes them
OptionLists ==
  UNION {[1..n -> {"all", "release", "bogus", "-DA=ON", "--prefix=out"}] :
           n \in 0..MaxArgs}

\* the tool is started in the project root
InitCli ==
  /\ env \in {e \in Envs : e.pwd = Root /\ e.cpus = 8 /\ e.prod = {}}
  /\ fs \in BuildFs
  /\ Fresh

CliMain ==
  /\ Idle
  /\ \E args \in CommandLines, fails \in OneFails(2) :
       Finish([NoCmd EXCEPT !.op = "main", !.impl = "mgr", !.args = args],
              main(World(fs, env, [NoOracle EXCEPT !.fails = fails]), args))

HandleBuildCommand ==
  /\ Idle
  /\ \E options \in OptionLists, fails \in OneFails(2) :
       Finish([NoCmd EXCEPT !.op = "handle_build_command", !.impl = "mgr",
                            !.args = options],
              handle_build_command(
                World(fs, env, [NoOracle EXCEPT !.fails = fails]), options))

NextCli ==
  \/ CliMain
  \/ HandleBuildCommand
  \/ NewProcess

SpecCli == InitCli /\ [][NextCli]_vars

\* the subprocesses during which Ctrl-C may arrive
InterruptPoints == 0..2

\* the tool is started through one of its two scripts, and Ctrl-C arrives
\* during the intr-th subprocess (0: it does not arrive)
EntryScripts == {"cli.py", "main.py"}

EntryPoint ==
  /\ Idle
  /\ \E script \in EntryScripts, args \in CommandLines,
        intr \in InterruptPoints :
       \E r \in {main(World(fs, env, [NoOracle EXCEPT !.intr = intr]), args)} :
         Finish([NoCmd EXCEPT !.op = script, !.impl = "mgr", !.args = args],
                IF script = "cli.py" THEN cli_entry(r) ELSE main_py_entry(r))

NextEntry ==
  \/ EntryPoint
  \/ NewProcess

SpecEntry == InitCli /\ [][NextEntry]_vars

\* os.path.isdir
isdir(f, p) == exists(f, p) /\ ~isfile(f, p)

\* the roots a caller may name: none, the project, another directory, a path
\* that does not exist and the path of a regular file
RootArgs ==
  {<<>>, Root, Home, <<"/", "non", "existent", "directory">>,
   Root \o <<"CMakeLists.txt">>}

\* the project holds its CMakeLists.txt
InitConstruct ==
  /\ env \in Envs
  /\ fs \in {[f EXCEPT !.files = {Root \o <<"CMakeLists.txt">>}] : f \in BuildFs}
  /\ Fresh

Construct ==
  /\ Idle
  /\ \E cwd \in RootArgs :
       Finish([NoCmd EXCEPT !.op = "__init__", !.impl = "mgr", !.dir = cwd],
              BuildManager_init(World(fs, env, NoOracle), cwd))

NextConstruct ==
  \/ Construct
  \/ NewProcess

SpecConstruct == InitConstruct /\ [][NextConstruct]_vars

\* the options a caller of the run and test handlers passes: build types,
\* all, a name that is neither, and a parameter
HandlerOptions ==
  UNION {[1..n -> {"all", "debug", "release", "FooTest", "--b"}] :
           n \in 0..MaxArgs}

\* the project is built or not, and the build leaves the program or nothing
InitHandlers ==
  /\ env \in {e \in Envs : /\ e.pwd = Root /\ e.cpus = 8 /\ e.ninja
                           /\ e.prod \subseteq {<<"bin", "Fabric">>}}
  /\ fs \in BuildFs \cup
            {[dirs |-> BaseDirs \cup {BuildDir},
              files |-> {BuildDir \o <<"bin", "Fabric">>},
              unreadable |-> {}]}
  /\ Fresh

HandleRunCommand ==
  /\ Idle
  /\ \E options \in HandlerOptions, fails \in OneFails(3) :
       Finish([NoCmd EXCEPT !.op = "handle_run_command", !.impl = "mgr",
                            !.args = options],
              handle_run_command(
                World(fs, env, [NoOracle EXCEPT !.fails = fails]), options))

HandleTestCommand ==
  /\ Idle
  /\ \E options \in HandlerOptions, fails \in OneFails(3) :
       Finish([NoCmd EXCEPT !.op = "handle_test_command", !.impl = "mgr",
                            !.args = options],
              handle_test_command(
                World(fs, env, [NoOracle EXCEPT !.fails = fails]), options))

NextHandlers ==
  \/ HandleRunCommand
  \/ HandleTestCommand
  \/ NewProcess

SpecHandlers == InitHandlers /\ [][NextHandlers]_vars

(***************************************************************************)
(* Reading the record of a command                                         *)
(***************************************************************************)
ValidType(T) == T \in {"debug", "profile", "release"}

IsConfigure(h) == h.cmd[1] = "cmake" /\ h.cmd[2] = "-G"

IsBuildDriver(h) == h.cmd[1] = "cmake" /\ h.cmd[2] = "--build"

IsInstallStep(h) == h.cmd[1] = "cmake" /\ h.cmd[2] = "--install"

IsTestRunner(h) == h.cmd[1] = "ctest"

IsProgram(h) == h.cmd[1] \notin {"cmake", "ctest"}

Count(seq, P(_)) == Len(SelectSeq(seq, P))

Define(T) ==
  CASE T = "debug" -> "-DCMAKE_BUILD_TYPE=Debug"
    [] T = "profile" -> "-DCMAKE_BUILD_TYPE=RelWithDebInfo"
    [] T = "release" -> "-DCMAKE_BUILD_TYPE=Release"

\* the position of token t in command c, 0 when it is absent
Position(c, t) ==
  IF \E j \in DOMAIN c : c[j] = t
  THEN CHOOSE j \in DOMAIN c : c[j] = t /\ \A k \in 1..(j - 1) : c[k] # t
  ELSE 0

\* the subprocess invocations of a history: command and working directory
Invocations(h) == [i \in DOMAIN h |-> <<h[i].cmd, h[i].cwd>>]

\* the methods BuildManager shares with the operations modules
FacadeMethods ==
  {"configure", "build", "build_all", "run", "test", "test_all", "install",
   "clean"}

\* the method of the operations modules that corresponds to the recorded
\* command, on the filesystem, the arguments and the environment's choices
\* the command started with
ModuleTwin ==
  LET w == World(pre, env, cmd.o)
  IN CASE cmd.op = "configure" -> BuildOperations_configure(w, cmd.T, cmd.args)
       [] cmd.op = "build" -> BuildOperations_build(w, cmd.T, cmd.args)
       [] cmd.op = "build_all" -> BuildOperations_build_all(w)
       [] cmd.op = "run" -> RunOperations_run(w, cmd.T, cmd.args)
       [] cmd.op = "test" -> TestOperations_test(w, cmd.T, cmd.filter)
       [] cmd.op = "test_all" -> TestOperations_test_all(w)
       [] cmd.op = "install" -> BuildOperations_install(w, cmd.T, cmd.prefix)
       [] cmd.op = "clean" -> BuildOperations_clean(w)
       [] OTHER -> w

CallsRun(c) == c[1] = "run"

CallsTest(c) == c[1] = "test"

CallsTestAll(c) == c[1] = "test_all"

\* the command left the process as the world w describes
EndsLike(w) ==
  /\ calls = w.calls
  /\ hist = w.hist
  /\ msgs = w.msgs
  /\ out = w.out
  /\ fs = w.fs

CallsBuild(c) == c[1] = "build"

(***************************************************************************)
(* Claims                                                                  *)
(***************************************************************************)

\* C1: configure(T, flags) with T one of debug, profile, release invokes the
\* configuration tool exactly once, and nothing else, with the define
\* -DCMAKE_BUILD_TYPE=<Debug | RelWithDebInfo | Release> followed by the
\* extra flags in their given order.
C1_ConfigureDefine ==
  (cmd.op = "configure" /\ ValidType(cmd.T)) =>
    /\ Len(hist) = 1
    /\ IsConfigure(hist[1])
    /\ LET c == hist[1].cmd
           d == Position(c, Define(cmd.T))
       IN /\ d > 0
          /\ SubSeq(c, d + 1, Len(c)) = cmd.args
          /\ \A T \in {"debug", "profile", "release"} \ {cmd.T} :
               Position(c, Define(T)) = 0

C1_Witness ==
  /\ cmd.op = "configure"
  /\ cmd.T = "profile"
  /\ Len(cmd.args) = 2
  /\ cmd.args[1] # cmd.args[2]
  /\ Len(hist) = 1
  /\ hist[1].rc = 0

\* C2: build_all calls build for debug, profile and release in that order,
\* whatever failed before: the configuration tool runs for each of the three
\* types in that order, the build driver runs right after each configuration
\* that succeeded and only then, and the process exits non-zero exactly when
\* one of these subprocesses failed (it returns normally otherwise).
C2_BuildAll ==
  cmd.op = "build_all" =>
    LET cfg == SelectSeq(hist, IsConfigure)
        IsBuildCall(c) == c[1] = "build"
    IN /\ SelectSeq(calls, IsBuildCall)
            = <<<<"build", "debug">>, <<"build", "profile">>,
                <<"build", "release">>>>
       /\ Len(cfg) = 3
       /\ \A i \in 1..3 :
            Position(cfg[i].cmd, Define(<<"debug", "profile", "release">>[i])) > 0
       /\ \A i \in DOMAIN hist :
            /\ IsConfigure(hist[i]) \/ IsBuildDriver(hist[i])
            /\ IsBuildDriver(hist[i]) =>
                 i > 1 /\ IsConfigure(hist[i - 1]) /\ hist[i - 1].rc = 0
            /\ (IsConfigure(hist[i]) /\ hist[i].rc = 0) =>
                 i < Len(hist) /\ IsBuildDriver(hist[i + 1])
       /\ (out = "exit1") <=> (\E i \in DOMAIN hist : hist[i].rc # 0)
       /\ out \in {"ok", "exit1"}

C2_Witness ==
  /\ cmd.op = "build_all"
  /\ Len(hist) = 5
  /\ hist[1].rc # 0
  /\ hist[5].rc = 0
  /\ out = "exit1"

\* the executable of build type T cannot be resolved on filesystem f
NoExecutable(impl, f, T) ==
  IF impl = "ops"
  THEN \A i \in DOMAIN Patterns(T) : Matches(f, Patterns(T)[i]) = {}
  ELSE ~exists(f, BuildDir \o <<"bin", "Fabric">>)

\* C3: run(T, params) started where no executable can be resolved calls
\* build(T) exactly once; after a build that succeeded the executable is
\* resolved again and run with params, and if it is still absent run raises
\* the not-found condition with no second build and no program run.
C3_RunBuildsOnce ==
  (cmd.op = "run" /\ ValidType(cmd.T) /\ NoExecutable(cmd.impl, pre, cmd.T)) =>
    LET IsBuildCall(c) == c[1] = "build"
        built == Len(hist) >= 2 /\ IsBuildDriver(hist[2]) /\ hist[2].rc = 0
    IN /\ SelectSeq(calls, IsBuildCall) = <<<<"build", cmd.T>>>>
       /\ Count(hist, IsConfigure) = 1
       /\ Count(hist, IsBuildDriver) <= 1
       /\ built =>
            IF NoExecutable(cmd.impl, fs, cmd.T)
            THEN /\ out = "FileNotFoundError"
                 /\ Len(hist) = 2
            ELSE /\ Len(hist) = 3
                 /\ IsProgram(hist[3])
                 /\ \E p \in fs.files : hist[3].cmd[1] = PathStr(p)
                 /\ Tail(hist[3].cmd) = cmd.args
                 /\ out # "FileNotFoundError"

C3_Witness ==
  /\ cmd.op = "run"
  /\ cmd.impl = "ops"
  /\ pre.unreadable # {}
  /\ NoExecutable("ops", pre, cmd.T)
  /\ Len(hist) = 2
  /\ hist[2].rc = 0
  /\ out = "FileNotFoundError"

\* C4: install passes the prefix after --prefix: a relative prefix joined
\* onto the project root, an absolute prefix unchanged, and no --prefix
\* argument when there is no prefix; for BuildManager.install as well as for
\* BuildOperations.install.
C4_InstallPrefix ==
  cmd.op = "install" =>
    \A i \in DOMAIN hist :
      IsInstallStep(hist[i]) =>
        LET c == hist[i].cmd
            k == Position(c, "--prefix")
        IN IF cmd.prefix = <<>> THEN k = 0
           ELSE /\ k > 0
                /\ k < Len(c)
                /\ c[k + 1] = IF isabs(cmd.prefix) THEN PathStr(cmd.prefix)
                              ELSE PathStr(Root \o cmd.prefix)

\* the directory a clean operation addresses: BuildOperations joins a relative
\* path onto the project root, BuildManager leaves it to the process
Addressed ==
  IF cmd.impl = "ops" THEN join(Root, cmd.dir) ELSE join(env.pwd, cmd.dir)

\* C5: clean_directory and clean, called on a directory that does not
\* exist, leave the filesystem unchanged, start no subprocess and return
\* normally.
C5_CleanMissing ==
  (cmd.op \in {"clean_directory", "clean"} /\ ~exists(pre, Addressed)) =>
    /\ fs = pre
    /\ hist = <<>>
    /\ out = "ok"

C5_Witness ==
  /\ cmd.op = "clean_directory"
  /\ cmd.dir = <<"out">>
  /\ ~exists(pre, Addressed)
  /\ pre.files # {}
  /\ cmd.o.rm = "all"

\* C6: every command test(T, f) hands to the test runner starts with
\* ctest --output-on-failure; it holds -R immediately followed by f when f is
\* not empty and no -R when f is empty; and the runner is invoked once when
\* the build directory exists.
C6_TestCommand ==
  cmd.op = "test" =>
    /\ \A i \in DOMAIN hist :
         IsTestRunner(hist[i]) =>
           LET c == hist[i].cmd
               k == Position(c, "-R")
           IN /\ Len(c) >= 2
              /\ c[1] = "ctest"
              /\ c[2] = "--output-on-failure"
              /\ IF cmd.filter = "" THEN k = 0
                 ELSE k > 0 /\ k < Len(c) /\ c[k + 1] = cmd.filter
    /\ exists(pre, BuildDir) => Count(hist, IsTestRunner) = 1

C6_Witness ==
  /\ cmd.op = "test"
  /\ cmd.filter # ""
  /\ cmd.T = "release"
  /\ Count(hist, IsTestRunner) = 1

\* C7: every invocation of the test runner by test(T, f) has the build
\* directory as its working directory.
C7_TestRunnerInBuildDir ==
  cmd.op = "test" =>
    \A i \in DOMAIN hist : IsTestRunner(hist[i]) => hist[i].cwd = BuildDir

\* C8: when the configuration tool, the build driver, the test runner or the
\* install step returns non-zero, the operation that invoked it (configure,
\* build, test, install) ends the process with exit status 1 and starts no
\* further subprocess.
C8_FailureExits ==
  cmd.op \in {"configure", "build", "test", "install"} =>
    \A i \in DOMAIN hist :
      (hist[i].rc # 0 /\ ~IsProgram(hist[i])) =>
        /\ out = "exit1"
        /\ i = Len(hist)

C8_Witness ==
  /\ cmd.op = "install"
  /\ Len(hist) = 3
  /\ IsInstallStep(hist[3])
  /\ hist[3].rc # 0

\* C9: when the executable run(T, params) invoked exits non-zero, the
\* failure is reported and the process exits with status 1.
C9_RunFailureExits ==
  cmd.op = "run" =>
    \A i \in DOMAIN hist :
      (IsProgram(hist[i]) /\ hist[i].rc # 0) =>
        /\ out = "exit1"
        /\ \E j \in DOMAIN msgs : msgs[j] = <<"Execution failed">>

\* C10: configure and build called with a name that is no build type end
\* the process with exit status 1, after reporting the invalid name and then
\* the list of the valid names, and start no subprocess.
C10_InvalidBuildType ==
  (cmd.op \in {"configure", "build"} /\ ~ValidType(cmd.T)) =>
    /\ out = "exit1"
    /\ hist = <<>>
    /\ \E j \in DOMAIN msgs :
         /\ msgs[j] = <<"Invalid build type", cmd.T>>
         /\ j < Len(msgs)
         /\ msgs[j + 1]
              = <<"Available build types", "debug", "profile", "release">>

C10_Witness ==
  /\ cmd.op = "build"
  /\ cmd.impl = "ops"
  /\ cmd.T = "bogus"
  /\ cmd.args # <<>>
  /\ out = "exit1"

\* C11: test, install and run called with a name that is no build type end
\* the process with exit status 1 and start neither the test runner nor the
\* install step nor any program, whatever the build directory holds.
C11_InvalidTypeExits ==
  (cmd.op \in {"test", "install", "run"} /\ ~ValidType(cmd.T)) =>
    /\ out = "exit1"
    /\ \A i \in DOMAIN hist :
         ~(IsTestRunner(hist[i]) \/ IsInstallStep(hist[i]) \/ IsProgram(hist[i]))

\* C12: build(T, flags) calls configure(T, flags) first; the build driver,
\* cmake --build . -j<N> with N >= 1, is started only as the second
\* subprocess, after a configuration that returned 0, with the build
\* directory as working directory; a build that succeeded has the history
\* configuration command, build command.
C12_ConfigureBeforeBuild ==
  cmd.op = "build" =>
    /\ calls = <<<<"build", cmd.T>>, <<"configure", cmd.T>>>>
    /\ \A i \in DOMAIN hist :
         IsBuildDriver(hist[i]) =>
           /\ i = 2
           /\ IsConfigure(hist[1])
           /\ hist[1].rc = 0
           /\ hist[i].cwd = BuildDir
           /\ \E n \in 1..16 :
                hist[i].cmd = <<"cmake", "--build", ".", "-j" \o ToString(n)>>
    /\ \A i \in DOMAIN hist :
         IsConfigure(hist[i]) =>
           /\ i = 1
           /\ SubSeq(hist[i].cmd, Len(hist[i].cmd) - Len(cmd.args) + 1,
                     Len(hist[i].cmd)) = cmd.args
    /\ out = "ok" =>
         /\ Len(hist) = 2
         /\ IsConfigure(hist[1])
         /\ IsBuildDriver(hist[2])

C12_Witness ==
  /\ cmd.op = "build"
  /\ cmd.impl = "ops"
  /\ cmd.args # <<>>
  /\ env.cpus = 0
  /\ Len(hist) = 2
  /\ IsBuildDriver(hist[2])
  /\ out = "ok"

\* C13: test_all calls test for debug, profile and release in that order,
\* going on after a build type whose tests failed; the summary is the last
\* thing it prints, it marks as failed as many build types as subprocesses
\* failed, and the process exits with status 1 after it exactly when a
\* subprocess failed (test_all returns normally otherwise).
C13_TestAll ==
  cmd.op = "test_all" =>
    LET IsTestCall(c) == c[1] = "test"
        IsFailed(m) == Len(m) = 2 /\ m[2] = "FAILED"
        n == Len(msgs)
    IN /\ SelectSeq(calls, IsTestCall)
            = <<<<"test", "debug">>, <<"test", "profile">>,
                <<"test", "release">>>>
       /\ Count(hist, IsTestRunner) <= 3
       /\ n >= 4
       /\ msgs[n - 3] = <<"TEST SUMMARY">>
       /\ \A i \in 1..3 :
            /\ Len(msgs[n - 3 + i]) = 2
            /\ msgs[n - 3 + i][1] = <<"debug", "profile", "release">>[i]
            /\ msgs[n - 3 + i][2] \in {"SUCCESS", "FAILED"}
       /\ Len(SelectSeq(SubSeq(msgs, n - 2, n), IsFailed))
            = Cardinality({i \in DOMAIN hist : hist[i].rc # 0})
       /\ (out = "exit1") <=> (\E i \in DOMAIN hist : hist[i].rc # 0)
       /\ out \in {"ok", "exit1"}

C13_Witness ==
  /\ cmd.op = "test_all"
  /\ Count(hist, IsTestRunner) = 3
  /\ \E i \in DOMAIN hist : IsTestRunner(hist[i]) /\ hist[i].rc # 0
  /\ IsTestRunner(hist[Len(hist)])
  /\ hist[Len(hist)].rc = 0
  /\ out = "exit1"

\* C14: once the install step has returned 0, install returns normally,
\* neither raising nor ending the process, whatever the verification of the
\* installed executable meets.
C14_VerificationNeverFatal ==
  (cmd.op = "install"
     /\ \E i \in DOMAIN hist : IsInstallStep(hist[i]) /\ hist[i].rc = 0) =>
    out = "ok"

\* C15: whenever install starts the install step, a build has completed in
\* the build directory before: in a project whose build leaves products
\* behind, those products are in the build directory when the install step
\* has run.
C15_InstallAfterBuild ==
  (cmd.op = "install" /\ env.prod # {}) =>
    \A i \in DOMAIN hist :
      IsInstallStep(hist[i]) =>
        \A q \in env.prod : (BuildDir \o q) \in fs.files

\* C16: clean_directory (and clean) on a directory that exists returns
\* normally, neither raising nor ending the process, whether the recursive
\* removal takes everything, only part or nothing; it starts no subprocess,
\* adds nothing to the filesystem, and the next command can be started.
C16_CleanNeverPropagates ==
  (cmd.op \in {"clean_directory", "clean"} /\ exists(pre, Addressed)) =>
    /\ out = "ok"
    /\ hist = <<>>
    /\ fs.files \subseteq pre.files
    /\ fs.dirs \subseteq pre.dirs \cup {Addressed}
    /\ ENABLED NewProcess

C16_Witness ==
  /\ cmd.op = "clean_directory"
  /\ cmd.impl = "mgr"
  /\ exists(pre, Addressed)
  /\ cmd.o.rm = "files"
  /\ pre.files # {}
  /\ fs.files # pre.files
  /\ out = "ok"

\* the pattern list of the executable resolution for build type T, relative
\* to the build directory
ResolutionPatterns(T) ==
  LET M == CASE T = "debug" -> "Debug"
             [] T = "profile" -> "RelWithDebInfo"
             [] T = "release" -> "Release"
  IN << <<M, "bin", "*">>, <<M, "**", "*">>, <<"bin", M, "*">>, <<"**", "*">> >>

\* the readable regular files of f the i-th pattern for T matches
Candidates(f, T, i) ==
  {p \in f.files :
     /\ p \notin f.unreadable
     /\ GlobMatch(BuildDir \o ResolutionPatterns(T)[i], p)}

\* C17: executable resolution for a build type T returns a readable regular
\* file matched by the earliest pattern of the list Debug/bin/*, Debug/**/*,
\* bin/Debug/*, **/* (for debug; below the build directory) that matches
\* such a file, and raises the not-found condition exactly when no pattern
\* matches a readable regular file.
C17_EarliestPattern ==
  (cmd.op = "find_executable" /\ ValidType(cmd.T)) =>
    LET hits == {i \in 1..4 : Candidates(pre, cmd.T, i) # {}}
    IN /\ (out = "FileNotFoundError") <=> (hits = {})
       /\ out \in {"ok", "FileNotFoundError"}
       /\ hits # {} =>
            \E i \in hits :
              /\ \A k \in hits : i <= k
              /\ cmd.ret \in Candidates(pre, cmd.T, i)
       /\ hist = <<>>
       /\ fs = pre

C17_Witness ==
  /\ cmd.op = "find_executable"
  /\ cmd.T = "debug"
  /\ (BuildDir \o <<"Debug", "bin", "app">>) \in pre.unreadable
  /\ cmd.ret = BuildDir \o <<"Debug", "lib", "app">>

\* C18: the path executable resolution returns for a build type T lies below
\* the subdirectory of the build directory named after the mapped type of T
\* (build/Debug for debug, build/RelWithDebInfo for profile, build/Release
\* for release).
C18_UnderMappedSubdir ==
  (cmd.op = "find_executable" /\ ValidType(cmd.T) /\ out = "ok") =>
    LET M == CASE cmd.T = "debug" -> "Debug"
               [] cmd.T = "profile" -> "RelWithDebInfo"
               [] cmd.T = "release" -> "Release"
    IN /\ Len(cmd.ret) > Len(BuildDir) + 1
       /\ SubSeq(cmd.ret, 1, Len(BuildDir) + 1) = BuildDir \o <<M>>

\* C19: a command line whose command word is none of the supported commands
\* ends the process with exit status 1 and runs no operation.
C19_UnknownCommandExits ==
  (cmd.op = "main"
     /\ cmd.args # <<>>
     /\ \A i \in DOMAIN cmd.args : ~IsOptionString(cmd.args[i])
     /\ Lower(cmd.args[1]) \notin {"clean", "build", "run", "test", "install",
                                   "info", "help"}) =>
    /\ out = "exit1"
    /\ calls = <<>>
    /\ hist = <<>>

\* C20: the build command handler calls build_all when the first option is
\* all; otherwise it calls build with the first option as build type (debug
\* without options) and the options after it as extra flags, which the
\* configuration command of that build then ends with.
C20_BuildHandler ==
  cmd.op = "handle_build_command" =>
    IF cmd.args # <<>> /\ cmd.args[1] = "all"
    THEN calls # <<>> /\ calls[1] = <<"build_all", "">>
    ELSE LET T     == IF cmd.args # <<>> THEN cmd.args[1] ELSE "debug"
             flags == IF cmd.args # <<>> THEN Tail(cmd.args) ELSE <<>>
         IN /\ calls # <<>>
            /\ calls[1] = <<"build", T>>
            /\ ValidType(T) =>
                 /\ hist # <<>>
                 /\ IsConfigure(hist[1])
                 /\ Len(hist[1].cmd) >= Len(flags) + 8
                 /\ SubSeq(hist[1].cmd, 9, Len(hist[1].cmd)) = flags

\* C21: Ctrl-C arriving while a command runs ends the process with exit
\* status 130, whether the tool was started through cli.py or through
\* main.py.
C21_InterruptExits130 ==
  (cmd.op \in {"cli.py", "main.py"}
     /\ \E i \in DOMAIN hist : hist[i].rc = -2) =>
    out = "exit130"

\* C22: a BuildManager constructed with a root that does not exist, or that is
\* not a directory, fails at construction with ValueError.
C22_InvalidRootRejected ==
  (cmd.op = "__init__" /\ cmd.dir # <<>> /\ ~isdir(pre, cmd.dir)) =>
    out = "ValueError"

\* C23: every method of BuildManager issues the same subprocess invocations
\* (command and working directory) and ends the same way as the method of
\* BuildOperations, RunOperations or TestOperations it stands for, on the same
\* filesystem and arguments.
C23_FacadeEquivalent ==
  (cmd.impl = "mgr" /\ cmd.op \in FacadeMethods) =>
    /\ Invocations(hist) = Invocations(ModuleTwin.hist)
    /\ out = ModuleTwin.out

\* C24: with the project root redirected (a root other than the working
\* directory of the process), configure runs the configuration tool with the
\* project root as working directory, so that -S . is the project root, and
\* gives it <root>/build as -B.
C24_ConfigureInRoot ==
  (cmd.op = "configure" /\ env.pwd # Root /\ hist # <<>>) =>
    LET c == hist[1].cmd
    IN /\ IsConfigure(hist[1])
       /\ hist[1].cwd = Root
       /\ Position(c, "-S") > 0 /\ c[Position(c, "-S") + 1] = "."
       /\ Position(c, "-B") > 0 /\ c[Position(c, "-B") + 1] = PathStr(BuildDir)

\* C25: the run handler calls run exactly once: run(debug, []) for no options,
\* run(first option, the other options) when the first option is a build
\* type, run(debug, all options) otherwise.
C25_RunHandler ==
  cmd.op = "handle_run_command" =>
    LET options == cmd.args
        typed   == options # <<>> /\ ValidType(options[1])
        T       == IF typed THEN options[1] ELSE "debug"
        params  == IF typed THEN Tail(options) ELSE options
    IN /\ Count(calls, CallsRun) = 1
       /\ calls[1] = <<"run", T>>
       /\ EndsLike(BuildManager_run(World(pre, env, cmd.o), T, params))

\* the program ran with the options after the build type as its parameters
C25_Witness ==
  /\ cmd.op = "handle_run_command"
  /\ cmd.args = <<"release", "--b">>
  /\ calls[1] = <<"run", "release">>
  /\ hist # <<>>
  /\ hist[Len(hist)].cmd = <<PathStr(BuildDir \o <<"bin", "Fabric">>), "--b">>

\* C26: the test handler calls test_all, and test only through it, when the
\* first option is all; otherwise it calls test exactly once: the build type is
\* the first option when that is a build type and debug otherwise; the filter
\* is the option after the build type, the first option itself when it is not
\* a build type, and the empty string when there is no such option.
C26_TestHandler ==
  cmd.op = "handle_test_command" =>
    LET options == cmd.args
        w       == World(pre, env, cmd.o)
        typed   == options # <<>> /\ ValidType(options[1])
        T       == IF typed THEN options[1] ELSE "debug"
        filter  == IF typed
                   THEN IF Len(options) > 1 THEN options[2] ELSE ""
                   ELSE IF options # <<>> THEN options[1] ELSE ""
    IN IF options # <<>> /\ options[1] = "all"
       THEN /\ Count(calls, CallsTestAll) = 1
            /\ calls[1] = <<"test_all", "">>
            /\ EndsLike(BuildManager_test_all(w))
       ELSE /\ Count(calls, CallsTestAll) = 0
            /\ Count(calls, CallsTest) = 1
            /\ calls[1] = <<"test", T>>
            /\ EndsLike(BuildManager_test(w, T, filter))

\* a first option that is no build type became the filter of the debug tests
C26_Witness ==
  /\ cmd.op = "handle_test_command"
  /\ cmd.args = <<"FooTest">>
  /\ calls[1] = <<"test", "debug">>
  /\ hist # <<>>
  /\ hist[Len(hist)].cmd = <<"ctest", "--output-on-failure", "-R", "FooTest">>

\* C27: test(T, f) started without a build directory calls build(T) exactly
\* once, and the test runner is started only after that build; started with
\* the build directory present it builds nothing.
C27_TestBuildsWhenMissing ==
  cmd.op = "test" =>
    IF ~exists(pre, BuildDir)
    THEN /\ SelectSeq(calls, CallsBuild) = <<<<"build", cmd.T>>>>
         /\ Count(hist, IsConfigure) <= 1
         /\ Count(hist, IsBuildDriver) <= 1
         /\ \A i \in DOMAIN hist :
              IsTestRunner(hist[i]) =>
                /\ i = 3
                /\ IsConfigure(hist[1]) /\ hist[1].rc = 0
                /\ IsBuildDriver(hist[2]) /\ hist[2].rc = 0
    ELSE /\ SelectSeq(calls, CallsBuild) = <<>>
         /\ \A i \in DOMAIN hist :
              ~IsConfigure(hist[i]) /\ ~IsBuildDriver(hist[i])

\* the tests ran after the build that the missing build directory triggered
C27_Witness ==
  /\ cmd.op = "test"
  /\ ~exists(pre, BuildDir)
  /\ Len(hist) = 3
  /\ IsTestRunner(hist[3])
  /\ calls = <<<<"test", cmd.T>>, <<"build", cmd.T>>, <<"configure", cmd.T>>>>

\* C28: a command starts a bounded number of subprocesses and retries none:
\* at most one for configure, two for build, three for run, for test and for
\* install before its verification probe, six for build_all, five for
\* test_all and none for clean.  A command for one build type starts each
\* tool at most once and nothing after a subprocess that failed; build_all
\* and test_all start each tool at most once per build type.
C28_BoundedSubprocesses ==
  LET n      == Len(hist)
      single == cmd.op \in {"configure", "build", "run", "test", "install"}
      most   == IF single THEN 1 ELSE Len(BuildTypeKeys)
  IN /\ cmd.op = "configure" => n <= 1
     /\ cmd.op = "build" => n <= 2
     /\ cmd.op \in {"run", "test"} => n <= 3
     /\ cmd.op = "install" => n - Count(hist, IsProgram) <= 3
     /\ cmd.op = "build_all" => n <= 6
     /\ cmd.op = "test_all" => n <= 5
     /\ cmd.op \in {"clean", "clean_directory"} => n = 0
     /\ single => \A i \in DOMAIN hist : hist[i].rc # 0 => i = n
     /\ (single \/ cmd.op \in {"build_all", "test_all"}) =>
          /\ Count(hist, IsConfigure) <= most
          /\ Count(hist, IsBuildDriver) <= most
          /\ Count(hist, IsTestRunner) <= most
          /\ Count(hist, IsInstallStep) <= 1
          /\ Count(hist, IsProgram) <= 1

\* an install that built first and probed the installed program afterwards
C28_Witness ==
  /\ cmd.op = "install"
  /\ Len(hist) = 4
  /\ IsConfigure(hist[1])
  /\ IsBuildDriver(hist[2])
  /\ IsInstallStep(hist[3])
  /\ IsProgram(hist[4])

\* C29: when run finds no executable and the build it triggers fails (the
\* configuration or the build driver returns non-zero), the process exits
\* with status 1, the executable is not resolved a second time and no
\* program is started.
C29_FailedBuildEndsRun ==
  (/\ cmd.op = "run"
   /\ ValidType(cmd.T)
   /\ NoExecutable(cmd.impl, pre, cmd.T)
   /\ \E i \in DOMAIN hist :
        (IsConfigure(hist[i]) \/ IsBuildDriver(hist[i])) /\ hist[i].rc # 0) =>
    /\ out = "exit1"
    /\ cmd.ret = <<>>
    /\ hist[Len(hist)].rc # 0
    /\ \A i \in DOMAIN hist : ~IsProgram(hist[i])

\* the build driver of the triggered build failed
C29_Witness ==
  /\ cmd.op = "run"
  /\ cmd.impl = "ops"
  /\ ValidType(cmd.T)
  /\ NoExecutable("ops", pre, cmd.T)
  /\ Len(hist) = 2
  /\ IsBuildDriver(hist[2])
  /\ hist[2].rc # 0
  /\ out = "exit1"

\* C30: test_all started without a build directory triggers a build for debug
\* only: configure creates the build directory first, so the tests of profile
\* and release find it and start the test runner without a build of their
\* own, also when the debug build failed.
C30_TestAllBuildsDebugOnly ==
  (cmd.op = "test_all" /\ ~exists(pre, BuildDir)) =>
    LET k == Count(hist, IsConfigure) + Count(hist, IsBuildDriver)
    IN /\ SelectSeq(calls, CallsBuild) = <<<<"build", "debug">>>>
       /\ Count(hist, IsConfigure) = 1
       /\ IsConfigure(hist[1])
       /\ Position(hist[1].cmd, Define("debug")) > 0
       /\ \A i \in DOMAIN hist : IsBuildDriver(hist[i]) => i = 2
       /\ exists(fs, BuildDir)
       /\ Count(hist, IsTestRunner) = IF hist[k].rc = 0 THEN 3 ELSE 2
       /\ \A i \in (k + 1)..Len(hist) : IsTestRunner(hist[i])

\* the debug build failed and the tests of profile and release ran all the same
C30_Witness ==
  /\ cmd.op = "test_all"
  /\ ~exists(pre, BuildDir)
  /\ Len(hist) = 3
  /\ IsConfigure(hist[1])
  /\ hist[1].rc # 0
  /\ IsTestRunner(hist[2])
  /\ IsTestRunner(hist[3])

====
